---- MODULE Spec2Model ----
(***************************************************************************)
(* The OpenAI streaming pipeline of packages/core/streams:                 *)
(*                                                                         *)
(*   source of deltas -> streamable/chunkToText -> createCallbacksTransformer *)
(*     -> createFunctionCallTransformer   (a handler is configured)        *)
(*     -> createStreamDataTransformer     (no handler is configured)       *)
(*                                                                         *)
(* A string of the program is a sequence of tokens; each token stands for  *)
(* one piece of text the program never splits:                             *)
(*   "F"  {"function_call": {"name": "f", "arguments": "                   *)
(*   "T"  {"tool_calls":[ {"id": "i", "type": "function", "function":      *)
(*        {"name": "f", "arguments": "                                     *)
(*   "n"  "}}, {"id": "j", "type": "function", "function": {"name": "g",   *)
(*        "arguments": "                                                   *)
(*   "a"  an escaped arguments increment (the digit 1)                     *)
(*   "c"  "}}          "d"  "}}]}                                          *)
(*   "x"  a piece of plain text       "s"  the string a handler returns    *)
(* and, where single characters matter:                                    *)
(*   "bsl" backslash  "sl" slash  "quo" double quote  "sp" space           *)
(*   "nl" "cr" "tab" "ff" "bsp"  the control characters LF CR HT FF BS     *)
(*   "ln" "lr" "lt" "lf" "lb"    the letters n r t f b                     *)
(* and, in an event stream, where a token is one byte or a run of ASCII    *)
(* bytes:                                                                  *)
(*   "D"  data:<space>     "E"  event: done      "Z"  [DONE]               *)
(*   "N"  line feed        "x"  an ASCII byte of payload                   *)
(*   "c3" "a9"  the two bytes of U+00E9, the character "eacute"            *)
(*   "fffd"     the replacement character U+FFFD                           *)
(* and, on the wire of the frame protocol:                                 *)
(*   "p0" "p1" "p2"  the prefixes 0: 1: 2:                                 *)
(*   "o"  the text {"k":1} of a JSON object                                *)
(* String concatenation is sequence concatenation.                         *)
(***************************************************************************)
EXTENDS Integers, Sequences, FiniteSets, TLC

\* Fragments one source yields before it ends.
MaxFragments == 3
\* Legs (the top-level invocation and its recursive continuations) of one run.
MaxLegs == 2

VARIABLES
  cfg,         \* the caller's callback set: which keys it has, and the mode
  legs,        \* the pipeline instances, outermost first
  nStart,      \* invocations of onStart
  finalCalls,  \* invocations of onFinal: <<[leg, arg]>>
  ex,          \* one chunkToText() closure taken by itself, with its history
  dec,         \* one createEventStreamTransformer() stream taken by itself
  ai,          \* one AIStream(response) call on a response that is not ok
  fr,          \* one frame encoder and one chunk decoder, with the wire between
  fm           \* the conversation messages of a chain of instances

vars == <<cfg, legs, nStart, finalCalls, ex, dec, ai, fr, fm>>

\* The components that are run by themselves, apart from the pipeline.
units == <<ex, dec, ai, fr, fm>>

\* The variables of the pipeline.
pipeline == <<cfg, legs, nStart, finalCalls>>

-----------------------------------------------------------------------------
(* Strings and JSON *)

RECURSIVE Concat(_)
\* The concatenation of a sequence of strings.
Concat(strs) == IF strs = <<>> THEN <<>> ELSE Head(strs) \o Concat(Tail(strs))

TextTok == "x"
HandlerString == <<"s">>

\* message.startsWith('{"function_call":') || message.startsWith('{"tool_calls":')
StartsWithCallPrefix(message) ==
  /\ Len(message) > 0
  /\ message[1] \in {"F", "T"}

RECURSIVE SplitTools(_, _, _)
\* The arguments strings of the objects of a tool_calls array body: the tokens
\* between the opening and the closing, cut at each "n".
SplitTools(s, cur, acc) ==
  IF s = <<>> THEN Append(acc, cur)
  ELSE IF Head(s) = "n" THEN SplitTools(Tail(s), <<>>, Append(acc, cur))
  ELSE SplitTools(Tail(s), Append(cur, Head(s)), acc)

\* The character a backslash stands for together with the one after it.
EscapeLetter ==
  [bsl |-> "bsl", sl |-> "sl", quo |-> "quo",
   ln |-> "nl", lr |-> "cr", lt |-> "tab", lf |-> "ff", lb |-> "bsp"]

\* What may not stand by itself inside a JSON string literal: the control
\* characters, the quote, and the pieces of text that contain a quote.
NotInLiteral ==
  {"nl", "cr", "tab", "ff", "bsp", "quo", "F", "T", "n", "c", "d", "o"}

RECURSIVE Unescape(_)
\* The value of the body of a JSON string literal, when it is one.
Unescape(s) ==
  IF s = <<>> THEN [ok |-> TRUE, str |-> <<>>]
  ELSE IF Head(s) = "bsl"
  THEN IF Len(s) >= 2 /\ s[2] \in DOMAIN EscapeLetter
       THEN LET r == Unescape(SubSeq(s, 3, Len(s)))
            IN [ok |-> r.ok, str |-> <<EscapeLetter[s[2]]>> \o r.str]
       ELSE [ok |-> FALSE, str |-> <<>>]
  ELSE IF Head(s) \in NotInLiteral
  THEN [ok |-> FALSE, str |-> <<>>]
  ELSE LET r == Unescape(Tail(s))
       IN [ok |-> r.ok, str |-> <<Head(s)>> \o r.str]

\* The text is the body of a JSON string literal.
InLiteral(s) == Unescape(s).ok

\* JSON.parse of an accumulated call buffer: the payload, or a SyntaxError.
JsonParse(s) ==
  IF Len(s) >= 2 /\ s[1] = "F" /\ s[Len(s)] = "c"
        /\ InLiteral(SubSeq(s, 2, Len(s) - 1))
    THEN [kind |-> "function_call", calls |-> <<SubSeq(s, 2, Len(s) - 1)>>]
  ELSE IF Len(s) >= 2 /\ s[1] = "T" /\ s[Len(s)] = "d"
        /\ LET parts == SplitTools(SubSeq(s, 2, Len(s) - 1), <<>>, <<>>)
           IN \A k \in 1..Len(parts) : InLiteral(parts[k])
    THEN [kind |-> "tool_calls",
          calls |-> SplitTools(SubSeq(s, 2, Len(s) - 1), <<>>, <<>>)]
  ELSE [kind |-> "SyntaxError", calls |-> <<>>]

\* JSON.parse(payload.function_call.arguments) succeeds: the arguments are a
\* JSON value (one or more digits).
ArgumentsParse(args) ==
  /\ Len(args) > 0
  /\ \A k \in 1..Len(args) : args[k] = "a"

-----------------------------------------------------------------------------
(* Frame protocol *)

\* formatStreamPart(kind, value): one frame of the wire protocol.
formatStreamPart(kind, value) == [kind |-> kind, value |-> value]

\* A chunk passed on as raw bytes.
RawChunk(s) == [kind |-> "raw", value |-> s]

\* A JSON value: a string with its characters, or a number or an object with
\* the text JSON.stringify gives for it.
JSONString(chars) == [type |-> "string", text |-> chars]
JSONNumber == [type |-> "number", text |-> <<"a">>]
JSONObject == [type |-> "object", text |-> <<"o">>]

\* JSON.stringify(value)
JSONStringify(value) ==
  IF value.type = "string" THEN <<"quo">> \o value.text \o <<"quo">>
  ELSE value.text

\* JSON.parse(text): the value, or a SyntaxError.
JSONParse(text) ==
  IF text = <<"a">> THEN JSONNumber
  ELSE IF text = <<"o">> THEN JSONObject
  ELSE IF Len(text) >= 2 /\ text[1] = "quo" /\ text[Len(text)] = "quo"
          /\ InLiteral(SubSeq(text, 2, Len(text) - 1))
    THEN JSONString(Unescape(SubSeq(text, 2, Len(text) - 1)).str)
  ELSE [type |-> "SyntaxError", text |-> <<>>]

StreamStringPrefixes == [text |-> "p0", function_call |-> "p1", data |-> "p2"]

\* getStreamString(type, value): the prefix, the value (as it is when it is
\* a string, JSON-ified otherwise), and a new line.
getStreamString(type, value) ==
  <<StreamStringPrefixes[type]>>
    \o (IF value.type = "string" THEN value.text ELSE JSONStringify(value))
    \o <<"nl">>

RECURSIVE Split(_, _, _)
\* text.split(sep), cur being the piece under way.
Split(text, sep, cur) ==
  IF text = <<>> THEN <<cur>>
  ELSE IF Head(text) = sep THEN <<cur>> \o Split(Tail(text), sep, <<>>)
  ELSE Split(Tail(text), sep, Append(cur, Head(text)))

\* parseStreamPart(line): the part a line stands for, as a sequence of at
\* most one part: the leading prefix gives the kind; the payload is the
\* string itself for text and the parsed JSON for the other kinds; a line
\* with no known prefix, or with a payload that does not parse, is dropped.
parseStreamPart(line) ==
  LET kinds == { k \in DOMAIN StreamStringPrefixes :
                   StreamStringPrefixes[k] = Head(line) }
      kind == CHOOSE k \in kinds : TRUE
      payload == Tail(line)
  IN IF kinds = {} THEN <<>>
     ELSE IF kind = "text" THEN <<[type |-> kind, value |-> JSONString(payload)]>>
     ELSE IF JSONParse(payload).type = "SyntaxError" THEN <<>>
     ELSE <<[type |-> kind, value |-> JSONParse(payload)]>>

RECURSIVE ParseLines(_)
\* lines.filter(line => line !== '').map(parseStreamPart).filter(Boolean)
ParseLines(lines) ==
  IF lines = <<>> THEN <<>>
  ELSE (IF Head(lines) = <<>> THEN <<>> ELSE parseStreamPart(Head(lines)))
         \o ParseLines(Tail(lines))

\* The function createChunkDecoder(true) returns, on a chunk of whole
\* characters.
createChunkDecoder(chunk) == ParseLines(Split(chunk, "nl", <<>>))

\* An encoder and a decoder with nothing sent.
NewFrames == [sent |-> <<>>, wire |-> <<>>, parts |-> <<>>, decoded |-> FALSE]

-----------------------------------------------------------------------------
(* Provider delta extractor *)

Deltas ==
  {"name", "args", "tool0", "tool1", "targs",
   "fin_function_call", "fin_stop", "fin_tool_calls", "content"}

Struct(tok) == [isText |-> FALSE, content |-> <<tok>>]
Text(s) == [isText |-> TRUE, content |-> s]

\* chunkToText: the fragment for one delta and the new isFunctionStreamingIn.
chunkToText(d, streamingIn) ==
  CASE d = "name" -> [frag |-> Struct("F"), fn |-> TRUE]
    [] d = "tool0" -> [frag |-> Struct("T"), fn |-> TRUE]
    [] d = "tool1" -> [frag |-> Struct("n"), fn |-> TRUE]
    [] d \in {"args", "targs"} -> [frag |-> Struct("a"), fn |-> streamingIn]
    [] d \in {"fin_function_call", "fin_stop"} /\ streamingIn ->
         [frag |-> Struct("c"), fn |-> FALSE]
    [] d = "fin_tool_calls" /\ streamingIn ->
         [frag |-> Struct("d"), fn |-> FALSE]
    [] d = "content" -> [frag |-> Text(<<TextTok>>), fn |-> streamingIn]
    [] OTHER -> [frag |-> Text(<<>>), fn |-> streamingIn]

RECURSIVE ReplaceAll(_, _, _)
\* text.replace(/ch/g, rep)
ReplaceAll(text, ch, rep) ==
  IF text = <<>> THEN <<>>
  ELSE (IF Head(text) = ch THEN rep ELSE <<Head(text)>>)
         \o ReplaceAll(Tail(text), ch, rep)

\* cleanupArguments: the seven replacements, in the order of the code.
cleanupArguments(argumentChunk) ==
  LET r1 == ReplaceAll(argumentChunk, "bsl", <<"bsl", "bsl">>)
      r2 == ReplaceAll(r1, "sl", <<"bsl", "sl">>)
      r3 == ReplaceAll(r2, "quo", <<"bsl", "quo">>)
      r4 == ReplaceAll(r3, "nl", <<"bsl", "ln">>)
      r5 == ReplaceAll(r4, "cr", <<"bsl", "lr">>)
      r6 == ReplaceAll(r5, "tab", <<"bsl", "lt">>)
  IN ReplaceAll(r6, "ff", <<"bsl", "lf">>)

RECURSIVE trimStart(_)
\* String.prototype.trimStart
trimStart(text) ==
  IF text # <<>> /\ Head(text) = "sp" THEN trimStart(Tail(text)) ELSE text

\* A trimmer whose flag is kept by the first text that is not empty and
\* dropped by an empty one.
trimStartOfStreamInverted(text, isStreamStart) ==
  IF isStreamStart
  THEN [text |-> trimStart(text), isStreamStart |-> trimStart(text) # <<>>]
  ELSE [text |-> text, isStreamStart |-> FALSE]

\* The closure of trimStartOfStreamHelper: the text it returns and the new
\* isStreamStart.
trimStartOfStream(text, isStreamStart) ==
  IF isStreamStart
  THEN [text |-> trimStart(text), isStreamStart |-> trimStart(text) = <<>>]
  ELSE [text |-> text, isStreamStart |-> FALSE]

\* One chunk of a chat completion stream, as far as chunkToText reads it.
JsonChunk(t, index, s, finish_reason) ==
  [t |-> t, index |-> index, s |-> s, finish_reason |-> finish_reason]

ArgIncrements == {<<"a">>, <<"bsl">>, <<"quo">>, <<"nl">>, <<"ln">>, <<"bsp">>}
ToolIncrements == {<<"a">>, <<"quo">>}
TextInputs == {<<"sp">>, <<"sp", "x">>, <<"x">>}
FinishReasons == {"function_call", "stop", "tool_calls"}

JsonChunks ==
  {JsonChunk("name", 0, <<>>, "null")}
    \cup {JsonChunk("args", 0, s, "null") : s \in ArgIncrements}
    \cup {JsonChunk("tool", k, <<>>, "null") : k \in {0, 1}}
    \cup {JsonChunk("targs", k, s, "null") : k \in {0, 1}, s \in ToolIncrements}
    \cup {JsonChunk("finish", 0, <<>>, r) : r \in FinishReasons}
    \cup {JsonChunk("content", 0, s, "null") : s \in TextInputs}

\* The closure with closing fragments that leave isFunctionStreamingIn set.
extractFlagKept(json, isFunctionStreamingIn, isStreamStart) ==
  LET structured(content, fn) ==
        [frag |-> [isText |-> FALSE, content |-> content],
         fn |-> fn, isStreamStart |-> isStreamStart, trimmed |-> FALSE]
      text == trimStartOfStream(IF json.t = "content" THEN json.s ELSE <<>>,
                                isStreamStart)
  IN CASE json.t = "name" -> structured(<<"F">>, TRUE)
       [] json.t = "tool" ->
            structured(IF json.index = 0 THEN <<"T">> ELSE <<"n">>, TRUE)
       [] json.t \in {"args", "targs"} /\ json.s # <<>> ->
            structured(cleanupArguments(json.s), isFunctionStreamingIn)
       [] isFunctionStreamingIn
            /\ json.finish_reason \in {"function_call", "stop"} ->
            structured(<<"c">>, TRUE)
       [] isFunctionStreamingIn /\ json.finish_reason = "tool_calls" ->
            structured(<<"d">>, TRUE)
       [] OTHER ->
            [frag |-> Text(text.text), fn |-> isFunctionStreamingIn,
             isStreamStart |-> text.isStreamStart, trimmed |-> TRUE]

\* The closure chunkToText() returns, on one chunk: the fragment, the new
\* isFunctionStreamingIn and the trimmer's new isStreamStart.
extract(json, isFunctionStreamingIn, isStreamStart) ==
  LET structured(content, fn) ==
        [frag |-> [isText |-> FALSE, content |-> content],
         fn |-> fn, isStreamStart |-> isStreamStart, trimmed |-> FALSE]
      text == trimStartOfStream(IF json.t = "content" THEN json.s ELSE <<>>,
                                isStreamStart)
  IN CASE json.t = "name" -> structured(<<"F">>, TRUE)
       [] json.t = "tool" ->
            structured(IF json.index = 0 THEN <<"T">> ELSE <<"n">>, TRUE)
       [] json.t \in {"args", "targs"} /\ json.s # <<>> ->
            structured(cleanupArguments(json.s), isFunctionStreamingIn)
       [] isFunctionStreamingIn
            /\ json.finish_reason \in {"function_call", "stop"} ->
            structured(<<"c">>, FALSE)
       [] isFunctionStreamingIn /\ json.finish_reason = "tool_calls" ->
            structured(<<"d">>, FALSE)
       [] OTHER ->
            [frag |-> Text(text.text), fn |-> isFunctionStreamingIn,
             isStreamStart |-> text.isStreamStart, trimmed |-> TRUE]

\* chunkToText(): isFunctionStreamingIn is not set, the trimmer is at the
\* start of the stream. ins and outs are the chunks the closure was called
\* with and what it returned; tin and tout are the same for its trimmer.
NewExtractor ==
  [isFunctionStreamingIn |-> FALSE, isStreamStart |-> TRUE,
   ins |-> <<>>, outs |-> <<>>, tin |-> <<>>, tout |-> <<>>]

-----------------------------------------------------------------------------
(* createEventStreamTransformer *)

RECURSIVE TextDecode(_)
\* textDecoder.decode(chunk): every call decodes its chunk by itself, and a
\* byte sequence that is not complete in the chunk becomes U+FFFD.
TextDecode(bytes) ==
  IF bytes = <<>> THEN <<>>
  ELSE IF Head(bytes) = "c3"
  THEN IF Len(bytes) >= 2 /\ bytes[2] = "a9"
       THEN <<"eacute">> \o TextDecode(SubSeq(bytes, 3, Len(bytes)))
       ELSE <<"fffd">> \o TextDecode(Tail(bytes))
  ELSE IF Head(bytes) = "a9" THEN <<"fffd">> \o TextDecode(Tail(bytes))
  ELSE <<Head(bytes)>> \o TextDecode(Tail(bytes))

\* new TransformStream({start, transform}) with its parser: no line, no
\* event under way; the readable side has no read request yet.
NewEventStreamTransformer(bytes) ==
  [ all |-> bytes, rest |-> bytes, nfed |-> 0,
    \* eventSourceParser
    line |-> <<>>, event |-> "message", data |-> <<>>, hasData |-> FALSE,
    \* the readable side and the writable side
    state |-> "readable", closeRequested |-> FALSE, writableErrored |-> FALSE,
    queue |-> <<>>, readPending |-> FALSE,
    \* history
    emitted |-> <<>>, delivered |-> <<>>, terminated |-> FALSE, atTerminate |-> 0,
    threw |-> FALSE ]

\* ReadableStreamDefaultControllerCanCloseOrEnqueue
CanCloseOrEnqueue(st) == st.state = "readable" /\ ~st.closeRequested

\* controller.terminate(): the readable side closes, at once when its queue
\* is empty; the writable side is errored.
terminate(st) ==
  LET s1 == [st EXCEPT !.writableErrored = TRUE,
                       !.atTerminate = IF st.terminated THEN @ ELSE Len(st.emitted),
                       !.terminated = TRUE]
  IN IF ~CanCloseOrEnqueue(st) THEN s1
     ELSE IF st.queue = <<>>
     THEN [s1 EXCEPT !.state = "closed", !.readPending = FALSE]
     ELSE [s1 EXCEPT !.closeRequested = TRUE]

\* controller.enqueue(parsedMessage): a TypeError when the readable side can
\* take nothing more, and the stream is then errored.
enqueue(st, parsedMessage) ==
  IF ~CanCloseOrEnqueue(st)
  THEN [st EXCEPT !.threw = TRUE, !.writableErrored = TRUE,
                  !.state = IF st.state = "readable" THEN "errored" ELSE @,
                  !.queue = IF st.state = "readable" THEN <<>> ELSE @]
  ELSE IF st.readPending
  THEN [st EXCEPT !.emitted = Append(@, parsedMessage),
                  !.delivered = Append(@, parsedMessage),
                  !.readPending = FALSE]
  ELSE [st EXCEPT !.emitted = Append(@, parsedMessage),
                  !.queue = Append(@, parsedMessage)]

\* The callback given to createParser, on one event.
onParse(st, event) ==
  IF event.data = <<"Z">> \/ event.event = "done" THEN terminate(st)
  ELSE IF event.data # <<>> THEN enqueue(st, event.data)
  ELSE st

\* The parser at the end of one line: a blank line dispatches the event
\* under way when it has data; a field line sets the field.
EndOfLine(st) ==
  LET s1 == [st EXCEPT !.line = <<>>]
  IN IF st.line = <<>>
     THEN IF st.hasData
          THEN onParse([s1 EXCEPT !.event = "message", !.data = <<>>,
                                  !.hasData = FALSE],
                       [event |-> st.event, data |-> st.data])
          ELSE [s1 EXCEPT !.event = "message"]
     ELSE IF Head(st.line) = "D"
     THEN [s1 EXCEPT !.data = IF st.hasData THEN @ \o <<"N">> \o Tail(st.line)
                              ELSE Tail(st.line),
                     !.hasData = TRUE]
     ELSE IF st.line = <<"E">> THEN [s1 EXCEPT !.event = "done"]
     ELSE s1

RECURSIVE feed(_, _)
\* eventSourceParser.feed(text): the events of the text are handed to the
\* callback one after the other; an exception of the callback ends the call.
feed(st, text) ==
  IF text = <<>> \/ st.threw THEN st
  ELSE IF Head(text) = "N" THEN feed(EndOfLine(st), Tail(text))
  ELSE feed([st EXCEPT !.line = Append(@, Head(text))], Tail(text))

-----------------------------------------------------------------------------
(* AIStream on a response that is not ok *)

\* response.body is null.
NoBody == [present |-> FALSE, chunks |-> <<>>]

\* response.body is a stream that yields the chunks and ends.
Body(chunks) == [present |-> TRUE, chunks |-> chunks]

\* A response with status outside 2xx, before AIStream is called on it. Its
\* body is NoBody or the chunks the body stream yields before it ends.
NewResponse(body) ==
  [ body |-> body, pc |-> "response",
    state |-> "none", error |-> <<>>, nErrors |-> 0,
    readPending |-> FALSE, delivered |-> <<>> ]

\* new Error(`Response error: ${errorText}`)
ResponseError(errorText) == <<"Response error: ">> \o errorText

\* controller.error(e): the stream is errored when it is readable.
ControllerError(st, e) ==
  IF st.state = "readable"
  THEN [st EXCEPT !.state = "errored", !.error = e, !.nErrors = @ + 1,
                  !.readPending = FALSE]
  ELSE st

-----------------------------------------------------------------------------
(* Callback sets *)

\* cb.experimental_onFunctionCall || cb.experimental_onToolCall
HandlerConfigured == cfg.fn = "set" \/ cfg.tool = "set"

\* isOfTypeOpenAIStreamCallbacks: 'experimental_onFunctionCall' in callbacks.
\* The spread copies keep a key whose value is undefined.
isOfTypeOpenAIStreamCallbacks == cfg.fn # "absent"

\* The callbacks createCallbacksTransformer receives from OpenAIStream:
\* {...cb, onFinal: undefined} with a handler configured, {...cb} without.
CallbacksTransformerOnFinal(cbOnFinal) ==
  IF HandlerConfigured THEN FALSE ELSE cbOnFinal

\* The callbacks of a continuation with onCompletion removed as well.
FilteredCallbacksNoCompletion(cb) ==
  [onStart |-> FALSE, onFinal |-> cb.onFinal, onCompletion |-> FALSE]

\* filteredCallbacks = {...callbacks, onStart: undefined}
FilteredCallbacks(cb) ==
  [onStart |-> FALSE, onFinal |-> cb.onFinal, onCompletion |-> cb.onCompletion]

\* callbacks.onFinal = undefined, on the callbacks of the leg that recurses.
OnFinalAfterRecursion(cb) == FALSE

-----------------------------------------------------------------------------
(* Conversation messages *)

\* The messages of a conversation: role and, for a result message, what
\* result it carries (the tool_call_id, the function's result).
Message(role, key) == [role |-> role, key |-> key]

\* {role: 'assistant', content: '', function_call | tool_calls}
AssistantMessage == Message("assistant", "")

\* The state createFunctionCallTransformer keeps of the conversation:
\* functionCallMessages from callbacks[__internal__OpenAIFnMessagesSymbol]
\* or [], and, while a handler runs, newFunctionCallMessages and
\* responseIndex. `started` lists what each instance of the chain started
\* from, `calls` and `returned` the closure calls of the round under way.
NewMessages(messages) ==
  [ functionCallMessages |-> messages,
    newFunctionCallMessages |-> <<>>, responseIndex |-> 0,
    kind |-> "none", pc |-> "idle",
    calls |-> <<>>, returned |-> <<>>,
    started |-> <<messages>>, rounds |-> <<>> ]

\* flush up to the handler's invocation: newFunctionCallMessages =
\* [...functionCallMessages], responseIndex = 0.
HandlerInvoked(st, kind) ==
  [st EXCEPT !.newFunctionCallMessages = st.functionCallMessages,
             !.responseIndex = 0,
             !.kind = kind, !.pc = "handler",
             !.calls = <<>>, !.returned = <<>>]

\* The closure given to experimental_onFunctionCall, called with a result.
createFunctionCallMessages(st, result) ==
  [st EXCEPT !.newFunctionCallMessages =
               st.functionCallMessages
                 \o <<AssistantMessage, Message("function", result)>>]

\* The tool closure with the assistant message in front of every result.
appendToolCallMessageEach(st, result) ==
  IF result # "undefined"
  THEN [st EXCEPT !.newFunctionCallMessages =
                    @ \o <<AssistantMessage, Message("tool", result)>>,
                  !.responseIndex = @ + 1]
  ELSE st

\* The closure given to experimental_onToolCall, called with a result
\* (named by its tool_call_id) or with none.
appendToolCallMessage(st, result) ==
  IF result # "undefined"
  THEN [st EXCEPT !.newFunctionCallMessages =
                    @ \o (IF st.responseIndex = 0 THEN <<AssistantMessage>>
                          ELSE <<>>)
                      \o <<Message("tool", result)>>,
                  !.responseIndex = @ + 1]
  ELSE st

\* The continuation started from the messages of the instance outside.
ContinuationFromOuter(st) == NewMessages(st.functionCallMessages)

\* OpenAIStream(functionResponse, {...filteredCallbacks,
\* [__internal__OpenAIFnMessagesSymbol]: newFunctionCallMessages}): the
\* state of the instance it constructs.
Continuation(st) == NewMessages(st.newFunctionCallMessages)

-----------------------------------------------------------------------------
(* One pipeline instance *)

\* OpenAIStream(res, cb): the stages as constructed. start() of the callbacks
\* transformer has invoked onStart, whose work is pending.
NewLeg(cb) ==
  [ onFinal |-> cb.onFinal,
    \* source and extractor
    n |-> 0, srcDone |-> FALSE, exFn |-> FALSE, yielded |-> <<>>, q1 |-> <<>>,
    \* createCallbacksTransformer
    started |-> ~cb.onStart, bpc |-> "idle",
    bOnFinal |-> CallbacksTransformerOnFinal(cb.onFinal),
    bText |-> FALSE, bagg |-> <<>>, q2 |-> <<>>,
    onCompletion |-> cb.onCompletion,
    \* what onToken, onText and onCompletion were invoked with
    tokens |-> <<>>, texts |-> <<>>, completions |-> <<>>,
    \* createFunctionCallTransformer
    cpc |-> "idle", isFirstChunk |-> TRUE, agg |-> <<>>, aggFinal |-> <<>>,
    inCall |-> FALSE, failed |-> FALSE,
    hcalls |-> 0, hres |-> "none",
    rd |-> 0,
    \* the readable side
    out |-> <<>>, status |-> "open",
    \* cancellation: the consumer cancelled the readable side (and what the
    \* leg was doing then), calls of it.return()
    cancelled |-> FALSE, srcDoneAtCancel |-> FALSE, cpcAtCancel |-> "idle",
    returned |-> 0 ]

Configs ==
  [complex : BOOLEAN, fn : {"absent", "undef", "set"}, tool : {"absent", "set"}]

Init ==
  /\ cfg \in Configs
  /\ legs = <<NewLeg([onStart |-> TRUE, onFinal |-> TRUE,
                      onCompletion |-> TRUE])>>
  /\ nStart = 1
  /\ finalCalls = <<>>
  /\ ex = NewExtractor
  /\ dec = NewEventStreamTransformer(<<>>)
  /\ ai = NewResponse(NoBody)
  /\ fr = NewFrames
  /\ fm = NewMessages(<<>>)

LegIds == 1..Len(legs)

SetLeg(i, leg) == legs' = [legs EXCEPT ![i] = leg]

\* The readable side of leg i has a read request pending: the consumer of the
\* top-level stream keeps reading, and the relay loop of the leg outside reads
\* again once it has enqueued what it read. A transform() is not called
\* before that (the transform stream's backpressure).
ReadPending(i) == IF i = 1 THEN TRUE ELSE legs[i - 1].rd = Len(legs[i].out)

-----------------------------------------------------------------------------
(* readableFromAsyncIterable(streamable(res)) *)

\* pull: it.next() runs the generator over one more delta; a fragment is
\* yielded when the extracted text is not empty, and the generator goes on to
\* the next delta when it is.
Pull(i, d) ==
  LET leg == legs[i]
      r == chunkToText(d, leg.exFn)
  IN /\ ~leg.srcDone
     /\ leg.returned = 0
     /\ leg.n < MaxFragments
     /\ leg.q1 = <<>>
     /\ IF r.frag.content # <<>>
        THEN SetLeg(i, [leg EXCEPT !.n = @ + 1,
                                   !.exFn = r.fn,
                                   !.yielded = Append(@, r.frag),
                                   !.q1 = Append(@, r.frag)])
        ELSE SetLeg(i, [leg EXCEPT !.exFn = r.fn])
     /\ UNCHANGED <<cfg, nStart, finalCalls>>

\* The source is exhausted: controller.close().
SrcEnd(i) ==
  LET leg == legs[i]
  IN /\ ~leg.srcDone
     /\ leg.returned = 0
     /\ leg.q1 = <<>>
     /\ SetLeg(i, [leg EXCEPT !.srcDone = TRUE])
     /\ UNCHANGED <<cfg, nStart, finalCalls>>

-----------------------------------------------------------------------------
(* createCallbacksTransformer *)

\* The source's stream is cancelled and nothing reaches the iterator.
SourceCancelDropped(leg) == [leg EXCEPT !.q1 = <<>>]

\* cancel(reason) of readableFromAsyncIterable: await it.return?.(reason). A
\* stream that has closed, its source exhausted, does not call it.
SourceCancel(leg) ==
  IF leg.srcDone THEN leg
  ELSE [leg EXCEPT !.returned = @ + 1, !.q1 = <<>>]

\* The writable side of the callbacks transformer is errored by a
\* cancellation from downstream, and the pipe cancels the source.
PropagateCancel(leg) == SourceCancel([leg EXCEPT !.bpc = "cancelled"])

\* transform() not held back by a pending start().
TransformBeforeStarted(leg) == leg.bpc = "idle"

\* transform() runs once start() has resolved and no transform is pending.
TransformReady(leg) == leg.started /\ leg.bpc = "idle"

\* The work returned by onStart completes.
OnStartReturn(i) ==
  LET leg == legs[i]
  IN /\ ~leg.started
     /\ SetLeg(i, IF leg.cancelled
                  THEN PropagateCancel([leg EXCEPT !.started = TRUE])
                  ELSE [leg EXCEPT !.started = TRUE])
     /\ UNCHANGED <<cfg, nStart, finalCalls>>

\* onText invoked for every message.
InvokesOnTextAlways(message) == TRUE

\* callbacks.onText && typeof message === 'string'
InvokesOnText(message) == message.isText

\* transform: enqueue the content, aggregate it, invoke onToken.
CallbacksTransform(i) ==
  LET leg == legs[i]
      message == Head(leg.q1)
  IN /\ TransformReady(leg)
     /\ leg.q1 # <<>>
     /\ leg.q2 = <<>>
     /\ SetLeg(i, [leg EXCEPT !.q1 = Tail(@),
                              !.q2 = Append(@, message.content),
                              !.bagg = @ \o message.content,
                              !.bText = InvokesOnText(message),
                              !.tokens = Append(@, message.content),
                              !.bpc = "onToken"])
     /\ UNCHANGED <<cfg, nStart, finalCalls>>

\* transform() returns: the write is over, and a cancellation that came
\* from downstream meanwhile goes on to the source.
AfterTransform(leg) ==
  IF leg.cancelled THEN PropagateCancel(leg) ELSE [leg EXCEPT !.bpc = "idle"]

\* onToken's work completes; onText is invoked for a string message.
OnTokenReturn(i) ==
  LET leg == legs[i]
  IN /\ leg.bpc = "onToken"
     /\ SetLeg(i, IF leg.bText
                  THEN [leg EXCEPT
                          !.bpc = "onText",
                          !.texts = Append(@, leg.tokens[Len(leg.tokens)])]
                  ELSE AfterTransform(leg))
     /\ UNCHANGED <<cfg, nStart, finalCalls>>

OnTextReturn(i) ==
  LET leg == legs[i]
  IN /\ leg.bpc = "onText"
     /\ SetLeg(i, AfterTransform(leg))
     /\ UNCHANGED <<cfg, nStart, finalCalls>>

\* flush: onCompletion(aggregatedResponse) is invoked when the callbacks
\* have it.
CallbacksFlush(i) ==
  LET leg == legs[i]
  IN /\ TransformReady(leg)
     /\ leg.srcDone
     /\ leg.q1 = <<>>
     /\ SetLeg(i, [leg EXCEPT
                     !.bpc = "onCompletion",
                     !.completions = IF leg.onCompletion
                                     THEN Append(@, leg.bagg) ELSE @])
     /\ UNCHANGED <<cfg, nStart, finalCalls>>

\* onCompletion's work completes; onFinal is invoked when the transformer's
\* callbacks have it and are not OpenAI callbacks.
OnCompletionReturn(i) ==
  LET leg == legs[i]
  IN /\ leg.bpc = "onCompletion"
     /\ IF leg.bOnFinal /\ ~isOfTypeOpenAIStreamCallbacks
        THEN /\ SetLeg(i, [leg EXCEPT !.bpc = "onFinal"])
             /\ finalCalls' = Append(finalCalls, [leg |-> i, arg |-> leg.bagg])
        ELSE /\ SetLeg(i, [leg EXCEPT !.bpc = "closed"])
             /\ UNCHANGED finalCalls
     /\ UNCHANGED <<cfg, nStart>>

CallbacksOnFinalReturn(i) ==
  LET leg == legs[i]
  IN /\ leg.bpc = "onFinal"
     /\ SetLeg(i, [leg EXCEPT !.bpc = "closed"])
     /\ UNCHANGED <<cfg, nStart, finalCalls>>

-----------------------------------------------------------------------------
(* createStreamDataTransformer: the last stage when no handler is configured *)

StreamDataChunk(message) ==
  IF cfg.complex THEN formatStreamPart("text", message) ELSE RawChunk(message)

StreamDataTransform(i) ==
  LET leg == legs[i]
  IN /\ ~HandlerConfigured
     /\ leg.q2 # <<>>
     /\ ReadPending(i)
     /\ SetLeg(i, [leg EXCEPT !.q2 = Tail(@),
                              !.out = Append(@, StreamDataChunk(Head(leg.q2)))])
     /\ UNCHANGED <<cfg, nStart, finalCalls>>

StreamDataClose(i) ==
  LET leg == legs[i]
  IN /\ ~HandlerConfigured
     /\ leg.q2 = <<>>
     /\ leg.bpc = "closed"
     /\ leg.status = "open"
     /\ SetLeg(i, [leg EXCEPT !.status = "closed"])
     /\ UNCHANGED <<cfg, nStart, finalCalls>>

-----------------------------------------------------------------------------
(* createFunctionCallTransformer: the last stage when a handler is configured *)

\* What a handler invocation ends in: no value, the empty string, a string,
\* a new streamable response, or an exception.
HandlerResults == {"undef", "empty", "str", "resp", "throw"}

TextChunk(message) ==
  IF cfg.complex THEN formatStreamPart("text", message) ELSE RawChunk(message)

\* The item for a call the handlers left unanswered.
CallChunk(aggregatedResponse) ==
  IF cfg.complex
  THEN formatStreamPart(JsonParse(aggregatedResponse).kind,
                        JsonParse(aggregatedResponse))
  ELSE RawChunk(aggregatedResponse)

\* A chunk of a call both buffered and passed on.
BufferAndForward(leg, message) ==
  [leg EXCEPT !.agg = @ \o message, !.out = Append(@, TextChunk(message))]

\* transform while a call streams in: aggregatedResponse += message, and
\* nothing is enqueued.
BufferChunk(leg, message) == [leg EXCEPT !.agg = @ \o message]

\* transform: the first chunk that opens a call switches to buffering.
FunctionCallTransform(i) ==
  LET leg == legs[i]
      message == Head(leg.q2)
      shouldHandleAsFunction ==
        leg.isFirstChunk /\ StartsWithCallPrefix(message)
      l1 == [leg EXCEPT !.q2 = Tail(@), !.aggFinal = @ \o message]
  IN /\ HandlerConfigured
     /\ leg.cpc = "idle"
     /\ leg.q2 # <<>>
     /\ ReadPending(i)
     /\ IF shouldHandleAsFunction
        THEN SetLeg(i, [l1 EXCEPT !.inCall = TRUE,
                                  !.agg = @ \o message,
                                  !.isFirstChunk = FALSE])
        ELSE IF ~leg.inCall
        THEN SetLeg(i, [l1 EXCEPT !.out = Append(@, TextChunk(message))])
        ELSE SetLeg(i, BufferChunk(l1, message))
     /\ UNCHANGED <<cfg, nStart, finalCalls>>

\* The state of the readable side once flush has settled: a cancelled stream
\* stays as the cancellation left it.
FlushedStatus(leg, threw) ==
  IF leg.cancelled THEN leg.status
  ELSE IF threw THEN "errored" ELSE "closed"

\* onFinal invoked only when flush returns, after the try block instead of
\* in a finally.
FinallyOnReturn(i, leg, threw) ==
  IF leg.onFinal /\ leg.aggFinal # <<>> /\ ~threw
  THEN /\ SetLeg(i, [leg EXCEPT !.cpc = "onFinal", !.failed = threw])
       /\ finalCalls' = Append(finalCalls, [leg |-> i, arg |-> leg.aggFinal])
  ELSE /\ SetLeg(i, [leg EXCEPT !.cpc = "done", !.failed = threw,
                                !.status = FlushedStatus(leg, threw)])
       /\ UNCHANGED finalCalls

\* finally: onFinal is invoked when the leg's callbacks still have it and the
\* accumulated completion is not empty; then the readable side closes, or
\* errors when flush threw.
Finally(i, leg, threw) ==
  IF leg.onFinal /\ leg.aggFinal # <<>>
  THEN /\ SetLeg(i, [leg EXCEPT !.cpc = "onFinal", !.failed = threw])
       /\ finalCalls' = Append(finalCalls, [leg |-> i, arg |-> leg.aggFinal])
  ELSE /\ SetLeg(i, [leg EXCEPT !.cpc = "done", !.failed = threw,
                                !.status = FlushedStatus(leg, threw)])
       /\ UNCHANGED finalCalls

\* A failing parse swallowed: the buffer goes out as it is and flush returns.
SyntaxErrorSwallowed(i, leg) ==
  Finally(i, [leg EXCEPT !.out = Append(@, RawChunk(leg.agg))], FALSE)

\* JSON.parse(aggregatedResponse) throws: nothing catches it before finally.
SyntaxErrorThrown(i, leg) == Finally(i, leg, TRUE)

\* flush, up to its first await.
FunctionCallFlush(i) ==
  LET leg == legs[i]
      l1 == [leg EXCEPT !.inCall = FALSE]
      payload == JsonParse(leg.agg)
  IN /\ HandlerConfigured
     /\ leg.cpc = "idle"
     /\ leg.q2 = <<>>
     /\ leg.bpc = "closed"
     /\ leg.status = "open"
     /\ IF ~(~leg.isFirstChunk /\ leg.inCall)
        THEN Finally(i, leg, FALSE)
        ELSE IF payload.kind = "SyntaxError"
        THEN SyntaxErrorThrown(i, l1)
        ELSE IF cfg.fn = "set"
        THEN IF payload.kind # "function_call"
                  \/ ~ArgumentsParse(payload.calls[1])
             THEN \* payload.function_call is undefined, or its arguments
                  \* are not JSON
                  Finally(i, l1, TRUE)
             ELSE /\ SetLeg(i, [l1 EXCEPT !.cpc = "fnHandler",
                                          !.hcalls = @ + 1])
                  /\ UNCHANGED finalCalls
        ELSE IF payload.kind # "tool_calls"
             THEN \* payload.tool_calls is not iterable
                  Finally(i, l1, TRUE)
             ELSE /\ SetLeg(i, [l1 EXCEPT !.cpc = "toolHandler",
                                          !.hcalls = @ + 1])
                  /\ UNCHANGED finalCalls
     /\ UNCHANGED <<cfg, nStart>>

\* flush after the handlers: the call as one item, the handler's string, or
\* a new instance of the pipeline on the handler's response.
AfterHandlers(i, leg, functionResponse) ==
  CASE functionResponse # "resp" /\ leg.cancelled ->
         \* controller.enqueue throws on the cancelled stream
         /\ Finally(i, leg, TRUE)
         /\ UNCHANGED nStart
    [] functionResponse \in {"undef", "empty"} /\ ~leg.cancelled ->
         /\ Finally(i, [leg EXCEPT !.out = Append(@, CallChunk(leg.agg))], FALSE)
         /\ UNCHANGED nStart
    [] functionResponse = "str" /\ ~leg.cancelled ->
         /\ Finally(i, [leg EXCEPT !.out = Append(@, TextChunk(HandlerString)),
                                   !.aggFinal = HandlerString], FALSE)
         /\ UNCHANGED nStart
    [] functionResponse = "resp" ->
         LET callbacks == [onStart |-> FALSE, onFinal |-> leg.onFinal,
                           onCompletion |-> leg.onCompletion]
             filteredCallbacks == FilteredCallbacks(callbacks)
         IN /\ legs' = Append(
                  [legs EXCEPT ![i] =
                     [leg EXCEPT !.onFinal = OnFinalAfterRecursion(callbacks),
                                 !.cpc = "relay"]],
                  NewLeg(filteredCallbacks))
            /\ nStart' = nStart + (IF filteredCallbacks.onStart THEN 1 ELSE 0)
            /\ UNCHANGED finalCalls

\* experimental_onFunctionCall settles.
FunctionHandlerReturn(i, r) ==
  LET leg == legs[i]
      l1 == [leg EXCEPT !.hres = r]
  IN /\ leg.cpc = "fnHandler"
     /\ r = "resp" => Len(legs) < MaxLegs
     /\ IF r = "throw" \/ cfg.tool = "set"
        THEN \* the exception propagates; with a tool handler configured,
             \* payload.tool_calls is not iterable
             Finally(i, l1, TRUE) /\ UNCHANGED nStart
        ELSE AfterHandlers(i, l1, r)
     /\ UNCHANGED cfg

\* experimental_onToolCall settles; its exception is caught and logged.
ToolHandlerReturn(i, r) ==
  LET leg == legs[i]
      l1 == [leg EXCEPT !.hres = r]
  IN /\ leg.cpc = "toolHandler"
     /\ r = "resp" => Len(legs) < MaxLegs
     /\ AfterHandlers(i, l1, IF r = "throw" THEN "undef" ELSE r)
     /\ UNCHANGED cfg

\* The relayed chunk put in front of what the leg has enqueued.
RelayEnqueueFront(out, value) == <<value>> \o out

\* controller.enqueue(value) of the relay loop.
RelayEnqueue(out, value) == Append(out, value)

\* A relay loop that a failed inner stream does not end.
RelayDoneOnClose(leg, inner) ==
  leg.rd = Len(inner.out) /\ inner.status = "closed"

\* The relay loop is over when reader.read() reports done.
RelayDone(leg, inner) == leg.rd = Len(inner.out) /\ inner.status # "open"

\* One round of the relay loop that reads a chunk of the inner stream.
RelayRead(i) ==
  LET leg == legs[i]
  IN /\ leg.cpc = "relay"
     /\ i < Len(legs)
     /\ leg.rd < Len(legs[i + 1].out)
     /\ IF leg.cancelled
        THEN \* controller.enqueue throws on the cancelled stream
             Finally(i, [leg EXCEPT !.rd = @ + 1], TRUE)
        ELSE /\ SetLeg(i, [leg EXCEPT
                             !.out = RelayEnqueue(@, legs[i + 1].out[leg.rd + 1]),
                             !.rd = @ + 1])
             /\ UNCHANGED finalCalls
     /\ UNCHANGED <<cfg, nStart>>

\* reader.read() reports done, or rejects because the inner stream errored.
RelayEnd(i) ==
  LET leg == legs[i]
  IN /\ leg.cpc = "relay"
     /\ i < Len(legs)
     /\ RelayDone(leg, legs[i + 1])
     /\ Finally(i, leg, legs[i + 1].status = "errored")
     /\ UNCHANGED <<cfg, nStart>>

\* onFinal's work completes and flush settles.
FunctionCallOnFinalReturn(i) ==
  LET leg == legs[i]
  IN /\ leg.cpc = "onFinal"
     /\ SetLeg(i, [leg EXCEPT !.cpc = "done",
                              !.status = FlushedStatus(leg, leg.failed)])
     /\ UNCHANGED <<cfg, nStart, finalCalls>>

-----------------------------------------------------------------------------

Next ==
  \/ \E i \in LegIds, d \in Deltas : Pull(i, d) /\ UNCHANGED units
  \/ \E i \in LegIds : SrcEnd(i) /\ UNCHANGED units
  \/ \E i \in LegIds : OnStartReturn(i) /\ UNCHANGED units
  \/ \E i \in LegIds : CallbacksTransform(i) /\ UNCHANGED units
  \/ \E i \in LegIds : OnTokenReturn(i) /\ UNCHANGED units
  \/ \E i \in LegIds : OnTextReturn(i) /\ UNCHANGED units
  \/ \E i \in LegIds : CallbacksFlush(i) /\ UNCHANGED units
  \/ \E i \in LegIds : OnCompletionReturn(i) /\ UNCHANGED units
  \/ \E i \in LegIds : CallbacksOnFinalReturn(i) /\ UNCHANGED units
  \/ \E i \in LegIds : StreamDataTransform(i) /\ UNCHANGED units
  \/ \E i \in LegIds : StreamDataClose(i) /\ UNCHANGED units
  \/ \E i \in LegIds : FunctionCallTransform(i) /\ UNCHANGED units
  \/ \E i \in LegIds : FunctionCallFlush(i) /\ UNCHANGED units
  \/ \E i \in LegIds, r \in HandlerResults : FunctionHandlerReturn(i, r) /\ UNCHANGED units
  \/ \E i \in LegIds, r \in HandlerResults : ToolHandlerReturn(i, r) /\ UNCHANGED units
  \/ \E i \in LegIds : RelayRead(i) /\ UNCHANGED units
  \/ \E i \in LegIds : RelayEnd(i) /\ UNCHANGED units
  \/ \E i \in LegIds : FunctionCallOnFinalReturn(i) /\ UNCHANGED units

Spec == Init /\ [][Next]_vars

\* Every source ends, every hook and handler returns, every stage of a
\* stream runs when it can, and the consumer keeps reading: a step that is
\* possible is taken.
LiveSpec == Init /\ [][Next]_vars /\ WF_vars(Next)

-----------------------------------------------------------------------------
(* The pipeline with a consumer that may cancel *)

\* reader.cancel() on the stream OpenAIStream returned. The last stage's
\* writable side is errored, unless its flush is under way; the stage before
\* it is cancelled in turn, and the source once that stage has no write
\* under way and has started.
Cancel ==
  LET leg == legs[1]
      l1 == [leg EXCEPT !.cancelled = TRUE, !.status = "cancelled",
                        !.srcDoneAtCancel = leg.srcDone,
                        !.cpcAtCancel = leg.cpc,
                        !.cpc = IF @ = "idle" THEN "cancelled" ELSE @,
                        !.q2 = <<>>]
  IN /\ leg.status = "open"
     /\ SetLeg(1, IF leg.started /\ leg.bpc = "idle" /\ leg.cpc = "idle"
                  THEN PropagateCancel(l1)
                  ELSE l1)
     /\ UNCHANGED <<cfg, nStart, finalCalls, units>>

NextCancel ==
  \/ Next
  \/ Cancel

CancelSpec == Init /\ [][NextCancel]_vars

-----------------------------------------------------------------------------
(* chunkToText by itself, over a bounded sequence of chunks *)

\* Chunks one closure is called with.
MaxChunks == 4

\* No pipeline has been constructed.
PipelineIdle ==
  /\ cfg = [complex |-> FALSE, fn |-> "absent", tool |-> "absent"]
  /\ legs = <<>>
  /\ nStart = 0
  /\ finalCalls = <<>>

InitExtract ==
  /\ PipelineIdle
  /\ ex = NewExtractor
  /\ dec = NewEventStreamTransformer(<<>>)
  /\ ai = NewResponse(NoBody)
  /\ fr = NewFrames
  /\ fm = NewMessages(<<>>)

\* const text = extract(chunk)
Extract(json) ==
  LET r == extract(json, ex.isFunctionStreamingIn, ex.isStreamStart)
  IN /\ Len(ex.ins) < MaxChunks
     /\ ex' = [isFunctionStreamingIn |-> r.fn,
               isStreamStart |-> r.isStreamStart,
               ins |-> Append(ex.ins, json),
               outs |-> Append(ex.outs, r.frag),
               tin |-> IF r.trimmed
                       THEN Append(ex.tin, IF json.t = "content"
                                           THEN json.s ELSE <<>>)
                       ELSE ex.tin,
               tout |-> IF r.trimmed THEN Append(ex.tout, r.frag.content)
                        ELSE ex.tout]
     /\ UNCHANGED <<pipeline, dec, ai, fr, fm>>

NextExtract == \E json \in JsonChunks : Extract(json)

ExtractSpec == InitExtract /\ [][NextExtract]_vars

-----------------------------------------------------------------------------
(* createEventStreamTransformer by itself, over a bounded input *)

\* Events of one input, and chunks the input is cut into.
MaxEvents == 4
MaxInputChunks == 2

\* The bytes of one event: a data event with ASCII payload, one with a
\* two-byte character, the [DONE] event, and an event of type done.
EventBytes ==
  { <<"D", "x", "N", "N">>,
    <<"D", "c3", "a9", "N", "N">>,
    <<"D", "Z", "N", "N">>,
    <<"E", "N", "D", "x", "N", "N">> }

Inputs ==
  { Concat(es) : es \in UNION { [1..n -> EventBytes] : n \in 1..MaxEvents } }

InitDecoder ==
  /\ PipelineIdle
  /\ ex = NewExtractor
  /\ dec \in { NewEventStreamTransformer(bytes) : bytes \in Inputs }
  /\ ai = NewResponse(NoBody)
  /\ fr = NewFrames
  /\ fm = NewMessages(<<>>)

\* transform(chunk) on the next k bytes of the input. The stream calls it
\* when the readable side has a read request and the writable side is intact.
DecoderTransform(k) ==
  /\ dec.rest # <<>>
  /\ k <= Len(dec.rest)
  /\ dec.nfed < MaxInputChunks
  /\ dec.nfed = MaxInputChunks - 1 => k = Len(dec.rest)
  /\ ~dec.writableErrored
  /\ dec.state = "readable"
  /\ dec.readPending
  /\ dec' = feed([dec EXCEPT !.rest = SubSeq(@, k + 1, Len(@)),
                              !.nfed = @ + 1],
                  TextDecode(SubSeq(dec.rest, 1, k)))
  /\ UNCHANGED <<pipeline, ex, ai, fr, fm>>

\* The input has ended: the writable side closes and, there being no
\* flush(), the readable side closes.
DecoderClose ==
  /\ dec.rest = <<>>
  /\ ~dec.writableErrored
  /\ CanCloseOrEnqueue(dec)
  /\ dec' = IF dec.queue = <<>>
            THEN [dec EXCEPT !.state = "closed", !.readPending = FALSE]
            ELSE [dec EXCEPT !.closeRequested = TRUE]
  /\ UNCHANGED <<pipeline, ex, ai, fr, fm>>

\* reader.read() of the stage that consumes the decoder's output.
DecoderRead ==
  /\ dec.state = "readable"
  /\ ~dec.readPending
  /\ IF dec.queue # <<>>
     THEN dec' = [dec EXCEPT !.queue = Tail(@),
                             !.delivered = Append(@, Head(dec.queue)),
                             !.state = IF dec.closeRequested /\ Len(dec.queue) = 1
                                       THEN "closed" ELSE @]
     ELSE dec' = [dec EXCEPT !.readPending = TRUE]
  /\ UNCHANGED <<pipeline, ex, ai, fr, fm>>

NextDecoder ==
  \/ \E k \in 1..(MaxEvents * 6) : DecoderTransform(k)
  \/ DecoderClose
  \/ DecoderRead

DecoderSpec == InitDecoder /\ [][NextDecoder]_vars

-----------------------------------------------------------------------------
(* AIStream by itself, on responses that are not ok *)

\* Chunks a response body yields.
MaxBodyChunks == 3

\* One chunk of a body: ASCII text, a two-byte character, or its two bytes
\* in two chunks.
BodyChunks == { <<"x">>, <<"c3", "a9">>, <<"c3">>, <<"a9">> }

Bodies ==
  { Body(chunks) : chunks \in UNION { [1..n -> BodyChunks] : n \in 0..MaxBodyChunks } }

InitAIStream ==
  /\ PipelineIdle
  /\ ex = NewExtractor
  /\ dec = NewEventStreamTransformer(<<>>)
  /\ ai \in { NewResponse(body) : body \in Bodies \cup {NoBody} }
  /\ fr = NewFrames
  /\ fm = NewMessages(<<>>)

\* AIStream(response) with !response.ok: the stream it returns, after the
\* synchronous part of start().
AIStreamNotOk ==
  /\ ai.pc = "response"
  /\ IF ai.body.present
     THEN ai' = [ai EXCEPT !.pc = "reader.read", !.state = "readable"]
     ELSE ai' = [ControllerError([ai EXCEPT !.state = "readable"],
                                 ResponseError(<<"No response body">>))
                   EXCEPT !.pc = "started"]
  /\ UNCHANGED <<pipeline, ex, dec, fr, fm>>

\* await reader.read() settles: with the first chunk of the body, or with
\* done when the body ends without one.
ReaderReadReturn ==
  /\ ai.pc = "reader.read"
  /\ IF ai.body.chunks # <<>>
     THEN ai' = [ControllerError(ai, ResponseError(TextDecode(ai.body.chunks[1])))
                   EXCEPT !.pc = "started"]
     ELSE ai' = [ai EXCEPT !.pc = "started"]
  /\ UNCHANGED <<pipeline, ex, dec, fr, fm>>

\* The consumer reads: the stream has no pull() and nothing queued, so the
\* request stays pending while the stream is readable.
AIStreamRead ==
  /\ ai.state = "readable"
  /\ ~ai.readPending
  /\ ai' = [ai EXCEPT !.readPending = TRUE]
  /\ UNCHANGED <<pipeline, ex, dec, fr, fm>>

NextAIStream ==
  \/ AIStreamNotOk
  \/ ReaderReadReturn
  \/ AIStreamRead

AIStreamSpec == InitAIStream /\ [][NextAIStream]_vars

-----------------------------------------------------------------------------
(* The frame protocol by itself: frames encoded onto a wire, then decoded *)

\* Frames encoded before the wire is decoded.
MaxFrames == 2

\* Values handed to the encoder: plain text, the empty string, text with a
\* line feed, strings that read as JSON (a number, an object, a string
\* literal), a number and an object.
FrameValues ==
  { JSONString(<<"x">>), JSONString(<<>>), JSONString(<<"x", "nl", "x">>),
    JSONString(<<"a">>), JSONString(<<"o">>),
    JSONString(<<"quo", "x", "quo">>),
    JSONNumber, JSONObject }

InitFrames ==
  /\ PipelineIdle
  /\ ex = NewExtractor
  /\ dec = NewEventStreamTransformer(<<>>)
  /\ ai = NewResponse(NoBody)
  /\ fr = NewFrames
  /\ fm = NewMessages(<<>>)

\* getStreamString(type, value), its result written to the wire.
FrameEncode(type, value) ==
  /\ ~fr.decoded
  /\ Len(fr.sent) < MaxFrames
  /\ fr' = [fr EXCEPT !.sent = Append(@, [type |-> type, value |-> value]),
                      !.wire = @ \o getStreamString(type, value)]
  /\ UNCHANGED <<pipeline, ex, dec, ai, fm>>

\* The decoder is called with what is on the wire, as one chunk.
FrameDecode ==
  /\ ~fr.decoded
  /\ fr.sent # <<>>
  /\ fr' = [fr EXCEPT !.parts = createChunkDecoder(fr.wire), !.decoded = TRUE]
  /\ UNCHANGED <<pipeline, ex, dec, ai, fm>>

NextFrames ==
  \/ \E type \in DOMAIN StreamStringPrefixes, value \in FrameValues :
       FrameEncode(type, value)
  \/ FrameDecode

FrameSpec == InitFrames /\ [][NextFrames]_vars

-----------------------------------------------------------------------------
(* The conversation messages by themselves, over a chain of continuations *)

\* Continuations of one chain, and closure calls of one handler invocation.
MaxRounds == 2
MaxClosureCalls == 3

\* What a handler calls the closure with: no result, or the result of one
\* of two tool calls.
ClosureResults == {"undefined", "call_0", "call_1"}

InitMessages ==
  /\ PipelineIdle
  /\ ex = NewExtractor
  /\ dec = NewEventStreamTransformer(<<>>)
  /\ ai = NewResponse(NoBody)
  /\ fr = NewFrames
  /\ fm = NewMessages(<<>>)

\* flush of a stream that ends inside a call, with the handler for the
\* call's kind configured: the handler is invoked.
MessagesFlush(kind) ==
  /\ fm.pc = "idle"
  /\ fm' = HandlerInvoked(fm, kind)
  /\ UNCHANGED <<pipeline, ex, dec, ai, fr>>

\* The handler calls the closure it was given.
ClosureCall(result) ==
  LET st == IF fm.kind = "function_call"
            THEN createFunctionCallMessages(fm, result)
            ELSE appendToolCallMessage(fm, result)
  IN /\ fm.pc = "handler"
     /\ Len(fm.calls) < MaxClosureCalls
     /\ fm' = [st EXCEPT !.calls = Append(@, result),
                         !.returned = Append(@, st.newFunctionCallMessages)]
     /\ UNCHANGED <<pipeline, ex, dec, ai, fr>>

\* The handler returns a new response: the continuation is constructed and
\* is from now on the instance looked at.
MessagesRecurse ==
  LET inner == Continuation(fm)
  IN /\ fm.pc = "handler"
     /\ Len(fm.rounds) < MaxRounds
     /\ fm' = [inner EXCEPT
                 !.started = Append(fm.started, inner.functionCallMessages),
                 !.rounds = Append(fm.rounds,
                                   [kind |-> fm.kind, calls |-> fm.calls,
                                    returned |-> fm.returned,
                                    outer |-> fm.functionCallMessages])]
     /\ UNCHANGED <<pipeline, ex, dec, ai, fr>>

\* The handler returns something else: the chain ends here.
MessagesEnd ==
  /\ fm.pc = "handler"
  /\ fm' = [fm EXCEPT !.pc = "done"]
  /\ UNCHANGED <<pipeline, ex, dec, ai, fr>>

NextMessages ==
  \/ \E kind \in {"function_call", "tool_calls"} : MessagesFlush(kind)
  \/ \E result \in ClosureResults : ClosureCall(result)
  \/ MessagesRecurse
  \/ MessagesEnd

MessagesSpec == InitMessages /\ [][NextMessages]_vars

-----------------------------------------------------------------------------
(* What the claims speak of *)

RECURSIVE Flat(_)
\* The concatenation of the contents of a sequence of fragments.
Flat(frags) ==
  IF frags = <<>> THEN <<>> ELSE Head(frags).content \o Flat(Tail(frags))

RECURSIVE PreCallChunks(_)
\* The output items for the fragments that precede the first call opening.
PreCallChunks(frags) ==
  IF frags = <<>> \/ StartsWithCallPrefix(Head(frags).content) THEN <<>>
  ELSE <<TextChunk(Head(frags).content)>> \o PreCallChunks(Tail(frags))

\* The leg has settled: its readable side is closed or errored.
Settled(leg) == leg.status # "open"

\* The string a handler result stands for.
HandlerValue(r) == IF r = "str" THEN HandlerString ELSE <<>>

\* The last item the leg has enqueued is `item`.
LastOut(leg, item) ==
  /\ Len(leg.out) > 0
  /\ leg.out[Len(leg.out)] = item

\* C1: a top-level invocation that ran to the end of its output has invoked
\* onStart exactly once and onFinal exactly once, all legs counted together.
C1_ExactlyOnceLifecycle ==
  legs[1].status = "closed" => (nStart = 1 /\ Len(finalCalls) = 1)

\* C2: onFinal is invoked only by the last leg of the chain, never by a leg
\* whose handler returned a new response, and with that leg's accumulated
\* output: the handler's string when the leg put it out, the concatenation of
\* the leg's fragments otherwise.
C2_OnFinalLastLeg ==
  \A k \in 1..Len(finalCalls) :
    LET c == finalCalls[k]
        leg == legs[c.leg]
    IN /\ c.leg = Len(legs)
       /\ leg.hres # "resp"
       /\ c.arg = IF LastOut(leg, TextChunk(HandlerString)) /\ leg.hres = "str"
                  THEN HandlerString
                  ELSE Flat(leg.yielded)

\* C3: while the work onStart returned is pending, nothing has been forwarded:
\* neither to the next stage nor to the consumer.
C3_OnStartBeforeData ==
  ~legs[1].started => (legs[1].q2 = <<>> /\ legs[1].out = <<>>)

\* onStart's work is complete and a fragment has reached the consumer.
C3_Witness ==
  /\ legs[1].started
  /\ nStart = 1
  /\ Len(legs[1].out) > 0

\* The fragments of the leg are one completed call and nothing else.
CarriesCall(leg) == JsonParse(Flat(leg.yielded)).kind # "SyntaxError"

\* C4: with neither handler configured, a stream that carried a completed
\* call has put out exactly one item, the call as a terminal frame of its
\* kind, when it closes.
C4_NoHandlerOneFrame ==
  (~HandlerConfigured /\ CarriesCall(legs[1]) /\ Settled(legs[1])) =>
    /\ legs[1].status = "closed"
    /\ legs[1].out = <<CallChunk(Flat(legs[1].yielded))>>

\* The buffered call of the leg is of a kind only the handler that is not
\* configured takes.
OtherKindOnly(leg) ==
  /\ ~leg.isFirstChunk
  /\ \/ cfg.fn # "set" /\ cfg.tool = "set"
        /\ JsonParse(leg.agg).kind = "function_call"
     \/ cfg.fn = "set" /\ cfg.tool # "set"
        /\ JsonParse(leg.agg).kind = "tool_calls"

\* C5: a completed call that only the handler of the other kind could take
\* goes out as one terminal frame of its own kind and the stream closes
\* without an error.
C5_OtherKindTerminalFrame ==
  \A i \in LegIds :
    (OtherKindOnly(legs[i]) /\ Settled(legs[i])) =>
      /\ legs[i].status = "closed"
      /\ LastOut(legs[i], CallChunk(legs[i].agg))

\* C6: a handler that was invoked and returned no value leaves the leg with
\* the whole call as its one terminal item, without a continuation, and the
\* stream closes.
C6_UndefinedTerminalFrame ==
  \A i \in LegIds :
    legs[i].hres = "undef" =>
      /\ i = Len(legs)
      /\ legs[i].out = PreCallChunks(legs[i].yielded) \o <<CallChunk(legs[i].agg)>>
      /\ Settled(legs[i]) => legs[i].status = "closed"

\* C7: a handler that returned a plain string s (here a string that is not
\* empty) leaves the leg with one item carrying s as its output for the call,
\* without a continuation, and the stream ends.
C7_StringOneTextItem ==
  \A i \in LegIds :
    legs[i].hres = "str" =>
      /\ i = Len(legs)
      /\ legs[i].out = PreCallChunks(legs[i].yielded)
                         \o <<TextChunk(HandlerValue(legs[i].hres))>>
      /\ Settled(legs[i]) => legs[i].status = "closed"

\* Exactly one of the two handlers is configured.
OneHandler == (cfg.fn = "set") # (cfg.tool = "set")

\* C8: a handler that threw, the function handler like the tool handler
\* (each taken as the only handler configured), leaves the leg as a handler
\* without a result does: the call goes out as one terminal frame and the
\* stream closes without an error.
C8_HandlerThrowCaught ==
  \A i \in LegIds :
    (OneHandler /\ legs[i].hres = "throw") =>
      /\ LastOut(legs[i], CallChunk(legs[i].agg))
      /\ Settled(legs[i]) => legs[i].status = "closed"

\* The leg buffered a call and its buffer is not JSON.
CallBufferInvalid(leg) ==
  /\ HandlerConfigured
  /\ ~leg.isFirstChunk
  /\ JsonParse(leg.agg).kind = "SyntaxError"

\* C9: a leg whose call buffer is not valid JSON never invokes a handler and
\* never puts out the call; when its input has ended the stream is errored,
\* never closed.
C9_InvalidBufferErrors ==
  \A i \in LegIds :
    CallBufferInvalid(legs[i]) =>
      /\ legs[i].hcalls = 0
      /\ legs[i].hres = "none"
      /\ legs[i].out = PreCallChunks(legs[i].yielded)
      /\ legs[i].status # "closed"
      /\ legs[i].cpc \in {"onFinal", "done"} => legs[i].failed

\* A leg flushed a call buffer that is not JSON and its stream is errored.
C9_Witness ==
  \E i \in LegIds :
    /\ CallBufferInvalid(legs[i])
    /\ legs[i].agg # <<>>
    /\ legs[i].srcDone
    /\ legs[i].status = "errored"

\* C10: the outer leg's output is what it forwarded before the call followed
\* by the items of the inner stream it has read, in the inner stream's order
\* and each once; the outer stream settles only when the inner stream has
\* settled and all its items are relayed.
C10_RelayInOrder ==
  \A i \in 1..(Len(legs) - 1) :
    /\ legs[i].out = PreCallChunks(legs[i].yielded)
                       \o SubSeq(legs[i + 1].out, 1, legs[i].rd)
    /\ Settled(legs[i]) =>
         /\ Settled(legs[i + 1])
         /\ legs[i].rd = Len(legs[i + 1].out)

\* An outer leg that forwarded text before the call has closed after relaying
\* two items of the inner stream.
C10_Witness ==
  /\ Len(legs) >= 2
  /\ legs[1].status = "closed"
  /\ PreCallChunks(legs[1].yielded) # <<>>
  /\ Len(legs[2].out) >= 2
  /\ legs[1].rd = 2

RECURSIVE CallPart(_)
\* The fragments from the first call opening on.
CallPart(frags) ==
  IF frags = <<>> \/ StartsWithCallPrefix(Head(frags).content) THEN frags
  ELSE CallPart(Tail(frags))

\* C11: once a fragment has switched the aggregation transformer into call
\* mode, and until flush, the output holds only what was forwarded before the
\* switch, and the call buffer is the concatenation of the fragments received
\* from the switching fragment on.
C11_NothingForwardedInCall ==
  \A i \in LegIds :
    (HandlerConfigured /\ ~legs[i].isFirstChunk /\ legs[i].cpc = "idle") =>
      /\ legs[i].inCall
      /\ legs[i].out = PreCallChunks(legs[i].yielded)
      /\ legs[i].agg \o Concat(legs[i].q2) \o Flat(legs[i].q1)
           = Flat(CallPart(legs[i].yielded))

\* A leg forwarded text, switched into call mode and has buffered a second
\* fragment of the call; flush has not run.
C11_Witness ==
  /\ HandlerConfigured
  /\ legs[1].inCall
  /\ legs[1].cpc = "idle"
  /\ legs[1].out # <<>>
  /\ Len(legs[1].agg) >= 2

RECURSIVE StructuredText(_)
\* The concatenation of the structured fragments among what a closure returned.
StructuredText(frags) ==
  IF frags = <<>> THEN <<>>
  ELSE (IF Head(frags).isText THEN <<>> ELSE Head(frags).content)
         \o StructuredText(Tail(frags))

RECURSIVE Increments(_, _, _)
\* The concatenation of the raw argument increments the chunks of kind t
\* carry for one index.
Increments(chunks, t, index) ==
  IF chunks = <<>> THEN <<>>
  ELSE (IF Head(chunks).t = t /\ Head(chunks).index = index
        THEN Head(chunks).s ELSE <<>>)
         \o Increments(Tail(chunks), t, index)

\* One name delta, any number of arguments deltas, one terminal signal with
\* finish reason function_call or stop.
IsFunctionCallSequence(chunks) ==
  /\ Len(chunks) >= 2
  /\ chunks[1].t = "name"
  /\ \A k \in 2..(Len(chunks) - 1) : chunks[k].t = "args"
  /\ chunks[Len(chunks)].t = "finish"
  /\ chunks[Len(chunks)].finish_reason \in {"function_call", "stop"}

\* C12: for a function-call delta sequence (name, arguments increments,
\* terminal signal) the concatenation of the structured fragments parses as a
\* function_call object whose arguments string is the concatenation of the
\* raw increments.
C12_FunctionCallWellFormed ==
  IsFunctionCallSequence(ex.ins) =>
    LET payload == JsonParse(StructuredText(ex.outs))
    IN /\ payload.kind = "function_call"
       /\ Unescape(payload.calls[1]).str = Increments(ex.ins, "args", 0)

\* The opening delta of tool call 0, the opening delta of tool call 1 after
\* it, arguments deltas for either index (for index 1 only once it is open),
\* and one terminal signal with finish reason tool_calls.
IsToolCallSequence(chunks) ==
  /\ Len(chunks) >= 3
  /\ chunks[1].t = "tool" /\ chunks[1].index = 0
  /\ chunks[Len(chunks)].t = "finish"
  /\ chunks[Len(chunks)].finish_reason = "tool_calls"
  /\ \E j \in 2..(Len(chunks) - 1) :
       /\ chunks[j].t = "tool" /\ chunks[j].index = 1
       /\ \A k \in (2..(Len(chunks) - 1)) \ {j} :
            /\ chunks[k].t = "targs"
            /\ chunks[k].index = 1 => k > j

\* C13: two tool calls streamed with their deltas interleaved by index
\* aggregate into one tool_calls array of two objects, and the arguments of
\* each object are exactly the increments sent for its index.
C13_ToolCallsByIndex ==
  IsToolCallSequence(ex.ins) =>
    LET payload == JsonParse(StructuredText(ex.outs))
    IN /\ payload.kind = "tool_calls"
       /\ Len(payload.calls) = 2
       /\ \A k \in {0, 1} :
            Unescape(payload.calls[k + 1]).str = Increments(ex.ins, "targs", k)

C15_SentinelTerminates ==
  dec.terminated =>
    /\ Len(dec.emitted) = dec.atTerminate
    /\ dec.state # "errored"
    /\ dec.state = "closed" \/ dec.closeRequested
    /\ dec.delivered \o dec.queue = dec.emitted

\* What the decoder emits for the input handed to it as one chunk.
UnsplitEmitted(bytes) ==
  feed(NewEventStreamTransformer(bytes), TextDecode(bytes)).emitted

\* s is an initial part of t.
IsPrefix(s, t) == Len(s) <= Len(t) /\ s = SubSeq(t, 1, Len(s))

\* C16: however the input bytes are cut into chunks, the event data emitted
\* so far are an initial part of what the unsplit input gives, and all of it
\* once the whole input has been transformed.
C16_ChunkingIndependent ==
  /\ IsPrefix(dec.emitted, UnsplitEmitted(dec.all))
  /\ dec.rest = <<>> => dec.emitted = UnsplitEmitted(dec.all)

\* The text of a body: its chunks decoded as one byte sequence.
BodyText(body) == TextDecode(Concat(body.chunks))

\* C17: once start() of the stream returned for a response that is not ok
\* has settled, the stream is errored, exactly once, it has delivered no
\* data, and the error carries the body text, or the no-body message when
\* there is no body or the body ended without a byte.
C17_NotOkErrorsOnce ==
  ai.pc = "started" =>
    /\ ai.state = "errored"
    /\ ai.nErrors = 1
    /\ ai.delivered = <<>>
    /\ ai.error = IF ~ai.body.present \/ BodyText(ai.body) = <<>>
                  THEN ResponseError(<<"No response body">>)
                  ELSE ResponseError(BodyText(ai.body))

\* The work returned by a hook of the callbacks transformer is pending.
CallbackPending(leg) == leg.bpc \in {"onToken", "onText", "onCompletion", "onFinal"}

\* The work returned by a handler, or by onFinal in flush, is pending.
HandlerPending(leg) == leg.cpc \in {"fnHandler", "toolHandler", "onFinal"}

HookPending(leg) == CallbackPending(leg) \/ HandlerPending(leg)

\* At most one hook of the stream, all its legs taken together, is pending.
NoHookOverlap ==
  /\ \A i \in LegIds : ~(CallbackPending(legs[i]) /\ HandlerPending(legs[i]))
  /\ \A i, j \in LegIds :
       (HookPending(legs[i]) /\ HookPending(legs[j])) => i = j

\* No step takes a fragment from the source of a leg while a hook of that leg
\* is pending.
NoPullWhileHookPending ==
  \A i \in LegIds :
    HookPending(legs[i]) => legs'[i].yielded = legs[i].yielded

\* C18: the hooks of one stream never overlap, and while the work a hook
\* returned is pending no further fragment is pulled from upstream.
C18_HooksSerialized == [] NoHookOverlap /\ [][NoPullWhileHookPending]_vars

\* The consumer cancelled the top-level stream before its source was
\* exhausted.
CancelledEarly == legs[1].cancelled /\ ~legs[1].srcDoneAtCancel

\* The source is released exactly once: by one call of it.return(), as soon
\* as the callbacks transformer has started and has no write under way, or by
\* its own end if that came first; it.return() is never called twice.
CancelReachesSource ==
  /\ \A i \in LegIds : legs[i].returned <= 1
  /\ CancelledEarly =>
       IF legs[1].bpc = "cancelled"
       THEN (legs[1].returned = 1) # legs[1].srcDone
       ELSE /\ legs[1].returned = 0
            /\ CallbackPending(legs[1]) \/ ~legs[1].started

\* Once it.return() has been called no fragment is taken from the source, and
\* it is not called again.
NoPullAfterReturn ==
  \A i \in LegIds :
    legs[i].returned = 1 =>
      /\ legs'[i].yielded = legs[i].yielded
      /\ legs'[i].returned = 1

CancelledInContinuation ==
  /\ legs[1].cancelled
  /\ legs[1].cpcAtCancel \in {"fnHandler", "toolHandler", "relay"}

\* C20: when the outer stream was cancelled with a continuation in flight and
\* its flush is over, the inner stream, unless it had ended by itself, has
\* been cancelled: the relay loop did not just stop reading from it.
C20_CancelReachesContinuation ==
  (CancelledInContinuation /\ Len(legs) >= 2
     /\ legs[1].cpc \in {"onFinal", "done"}) =>
    legs[2].cancelled \/ legs[2].status # "open"

\* The serialization of the value has no line feed in it.
NoNewline(value) ==
  \A k \in 1..Len(value.text) : value.text[k] # "nl"

\* C21: once the decoder has decoded the lines the encoder produced for
\* frames whose values serialize without a line feed, the parts it returned
\* are those frames: each kind and each value as given, strings under a
\* structured kind and text that reads as JSON included.
C21_FrameRoundTrip ==
  (fr.decoded /\ \A k \in 1..Len(fr.sent) : NoNewline(fr.sent[k].value))
    => fr.parts = fr.sent

\* The callback set the caller handed to the top-level invocation: the
\* object createFunctionCallTransformer of the first leg holds as
\* `callbacks`; a continuation gets a copy.
CallerCallbacks == [onFinal |-> legs[1].onFinal]

\* C22: a run leaves the caller's callback set as it was given, onFinal
\* included, however many continuations it went through, so that a second
\* top-level invocation with the same set finds the same hooks.
C22_CallbackSetUnchanged == CallerCallbacks.onFinal

\* What the k-th call of the tool closure is to add, `calls` being the
\* results the closure was called with: nothing without a result; the tool
\* message for the result, behind the assistant message when no earlier
\* call carried a result.
ToolCallAdds(calls, k) ==
  IF calls[k] = "undefined" THEN <<>>
  ELSE (IF \A j \in 1..(k - 1) : calls[j] = "undefined"
        THEN <<AssistantMessage>> ELSE <<>>)
       \o <<Message("tool", calls[k])>>

\* Every call of the tool closure returned what was accumulated before it
\* plus what the call is to add.
ToolRoundAsClaimed(outer, calls, returned) ==
  \A k \in 1..Len(calls) :
    returned[k] = (IF k = 1 THEN outer ELSE returned[k - 1])
                    \o ToolCallAdds(calls, k)

\* C23: in a tool-calls round, whatever the sequence of closure calls, the
\* assistant message is appended once, by the first call with a result;
\* every later call with a result appends one tool message with the given
\* tool_call_id; a call without a result appends nothing and returns the
\* messages accumulated so far.
C23_AssistantMessageOnce ==
  /\ fm.kind = "tool_calls" =>
       /\ ToolRoundAsClaimed(fm.functionCallMessages, fm.calls, fm.returned)
       /\ fm.calls # <<>> =>
            fm.newFunctionCallMessages = fm.returned[Len(fm.returned)]
  /\ \A r \in 1..Len(fm.rounds) :
       fm.rounds[r].kind = "tool_calls" =>
         ToolRoundAsClaimed(fm.rounds[r].outer, fm.rounds[r].calls,
                            fm.rounds[r].returned)

\* A tool round in which the closure was called without a result, then with
\* a first and with a second result.
C23_Witness ==
  /\ fm.kind = "tool_calls"
  /\ fm.calls = <<"undefined", "call_0", "call_1">>
  /\ Len(fm.returned[3]) = 3

\* The sequence a round handed to the continuation, as the handler has it:
\* what the closure returned last, the round's own messages if it was never
\* called.
HandedOn(round) ==
  IF round.returned = <<>> THEN round.outer
  ELSE round.returned[Len(round.returned)]

\* C24: every continuation starts from exactly the sequence the handler got
\* from the closure, which extends the sequence of the instance outside;
\* that sequence is a prefix of it and stays what the outer instance
\* started from.
C24_ContinuationExtended ==
  /\ Len(fm.started) = Len(fm.rounds) + 1
  /\ fm.functionCallMessages = fm.started[Len(fm.started)]
  /\ \A r \in 1..Len(fm.rounds) :
       /\ fm.rounds[r].outer = fm.started[r]
       /\ fm.started[r + 1] = HandedOn(fm.rounds[r])
       /\ IsPrefix(fm.started[r], fm.started[r + 1])

\* Two continuations, after a function round and a tool round in each of
\* which the handler appended a result, and a closure call under way in the
\* second continuation.
C24_Witness ==
  /\ Len(fm.rounds) = 2
  /\ fm.rounds[1].kind = "function_call" /\ fm.rounds[1].calls = <<"call_0">>
  /\ fm.rounds[2].kind = "tool_calls"
  /\ fm.rounds[2].calls = <<"call_0", "call_1">>
  /\ Len(fm.started[3]) = 5
  /\ fm.calls # <<>>

\* C25: only the first fragment of a stream switches the aggregation
\* transformer into call mode: a leg whose first fragment was text, and was
\* forwarded, buffers nothing of a call afterwards; a later fragment with
\* the opening prefix is forwarded as text as well.
C25_OnlyFirstFragmentSwitches ==
  \A i \in LegIds :
    (Len(legs[i].yielded) > 0 /\ legs[i].yielded[1].isText)
      => (legs[i].agg = <<>> /\ ~legs[i].inCall)

\* The chunk that opened the call open before chunk k: the latest name or
\* tool delta before it.
OpenedBy(chunks, k) ==
  LET openings == { j \in 1..(k - 1) : chunks[j].t \in {"name", "tool"} }
  IN chunks[CHOOSE j \in openings : \A h \in openings : h <= j]

\* The closure returned a closing fragment for chunk k.
IsClosing(k) == ex.ins[k].t = "finish" /\ ~ex.outs[k].isText

\* C26: every closing fragment matches the kind of the call that is open:
\* the function-call closing for a call opened by a function_call name, the
\* array closing for a call opened as tool calls.
C26_ClosingMatchesOpening ==
  \A k \in 1..Len(ex.outs) :
    IsClosing(k) =>
      ex.outs[k].content =
        (IF OpenedBy(ex.ins, k).t = "name" THEN <<"c">> ELSE <<"d">>)

\* A call is in progress when chunk k arrives: a name or tool delta came
\* before it and no closing fragment was returned since.
InCallBefore(k) ==
  \E j \in 1..(k - 1) :
    /\ ex.ins[j].t \in {"name", "tool"}
    /\ \A h \in (j + 1)..(k - 1) : ~IsClosing(h)

\* C27: a terminal signal yields a closing fragment when a call is in
\* progress and no structured fragment when none is; the closing clears the
\* in-call flag, so that two closing fragments always have an opening
\* fragment between them.
C27_ClosingOnlyInCall ==
  /\ \A k \in 1..Len(ex.ins) :
       ex.ins[k].t = "finish" =>
         /\ IsClosing(k) <=> InCallBefore(k)
         /\ ~InCallBefore(k) => ex.outs[k].isText
  /\ \A k, m \in 1..Len(ex.ins) :
       (k < m /\ IsClosing(k) /\ IsClosing(m)) =>
         \E j \in (k + 1)..(m - 1) : ex.ins[j].t \in {"name", "tool"}
  /\ (ex.ins # <<>> /\ IsClosing(Len(ex.ins))) => ~ex.isFunctionStreamingIn

\* A call was opened and closed, and two more terminal signals followed, the
\* first of which gave no structured fragment.
C27_Witness ==
  /\ Len(ex.ins) = 4
  /\ ex.ins[1].t = "name"
  /\ IsClosing(2)
  /\ ex.ins[3].t = "finish" /\ ex.outs[3].isText
  /\ ex.ins[4].t = "finish"

\* The leg's callbacks transformer has reached the end of its input.
InputEnded(leg) == leg.bpc \in {"onCompletion", "onFinal", "closed"}

RECURSIVE TextOnly(_)
\* The contents of the text fragments among the fragments, in order.
TextOnly(frags) ==
  IF frags = <<>> THEN <<>>
  ELSE (IF Head(frags).isText THEN <<Head(frags).content>> ELSE <<>>)
         \o TextOnly(Tail(frags))

\* No fragment of the leg belongs to a call.
NoCall(leg) == \A k \in 1..Len(leg.yielded) : leg.yielded[k].isText

\* C29: the fragments that arrive while the leg is not in a call are
\* forwarded once each and in arrival order; onToken has been invoked once
\* for each fragment that arrived, onText once for each text fragment and for
\* no structured one; and in simple mode a leg without a call that has
\* closed has put out the concatenation of its text fragments.
C29_TextForwardedOnce ==
  \A i \in LegIds :
    LET leg == legs[i]
        pre == PreCallChunks(leg.yielded)
    IN /\ IsPrefix(leg.tokens, [k \in 1..Len(leg.yielded) |->
                                  leg.yielded[k].content])
       /\ Len(leg.tokens) = Len(leg.yielded) - Len(leg.q1)
       /\ IsPrefix(leg.texts, TextOnly(leg.yielded))
       /\ Len(leg.texts)
            = Len(TextOnly(SubSeq(leg.yielded, 1, Len(leg.tokens))))
                - (IF leg.bpc = "onToken" /\ leg.bText THEN 1 ELSE 0)
       /\ IsPrefix(leg.out, pre) \/ IsPrefix(pre, leg.out)
       /\ (leg.inCall \/ leg.status = "closed") => IsPrefix(pre, leg.out)
       /\ (NoCall(leg) /\ leg.status = "closed" /\ ~cfg.complex) =>
            /\ Len(leg.out) = Len(leg.yielded)
            /\ Concat([k \in 1..Len(leg.out) |-> leg.out[k].value])
                 = Flat(leg.yielded)

\* A leg in simple mode has closed after three text fragments, each seen by
\* onToken and onText.
C29_Witness ==
  /\ ~cfg.complex
  /\ legs[1].status = "closed"
  /\ NoCall(legs[1])
  /\ Len(legs[1].out) = 3
  /\ Len(legs[1].texts) = 3

FinalCallsOf(i) == { k \in 1..Len(finalCalls) : finalCalls[k].leg = i }

\* C31: a leg whose flush has failed (the call buffer did not parse, or an
\* error of a handler propagated) and that has not handed onFinal to a
\* continuation has invoked onFinal once, with the text the leg accumulated,
\* and has done so before its stream is errored.
C31_OnFinalOnFailure ==
  \A i \in LegIds :
    LET leg == legs[i]
    IN ((leg.failed \/ leg.status = "errored")
          /\ leg.hres # "resp" /\ Flat(leg.yielded) # <<>>) =>
         /\ Cardinality(FinalCallsOf(i)) = 1
         /\ \A k \in FinalCallsOf(i) : finalCalls[k].arg = Flat(leg.yielded)

\* An invalid call buffer: flush has thrown before any handler was invoked,
\* onFinal is pending and the stream is not errored yet.
C31_Witness ==
  /\ legs[1].failed
  /\ legs[1].hres = "none"
  /\ legs[1].cpc = "onFinal"
  /\ legs[1].status = "open"
  /\ Len(finalCalls) = 1

====
